---- MODULE Spec2Model ----
(***************************************************************************)
(* backend/create_test_pdf.py: a straight-line script that assembles a     *)
(* reportlab "story" (a list of flowables) from a hard-coded list of       *)
(* provider records, renders it with doc.build and prints status lines.    *)
(*                                                                         *)
(* One action per statement of the script; pc names the line about to run. *)
(* Text is a sequence of string fragments: an f-string is the              *)
(* concatenation of its literal and formatted fragments.                   *)
(* Module-level names that are not bound yet hold a placeholder and are    *)
(* absent from `bound`.                                                    *)
(***************************************************************************)
EXTENDS Integers, Sequences, FiniteSets, TLC

VARIABLES pc, bound, pdf_file, doc, story, styles, title_style, providers,
          loop, i, provider, stdout, exit, disk, built

vars == <<pc, bound, pdf_file, doc, story, styles, title_style, providers,
          loop, i, provider, stdout, exit, disk, built>>

(***************************************************************************)
(* Library values                                                          *)
(***************************************************************************)

\* reportlab.lib.units.inch is 72 points; lengths are kept in tenths of a
\* point so that 0.1*inch, 0.2*inch and 0.3*inch are exact.
inch == 720

\* U+2713 CHECK MARK, the first character of the first status line.
CheckMark == "U+2713"

\* The styles getSampleStyleSheet() provides that the script looks up.
SampleStyleSheet == {"Normal", "Heading1", "Heading2"}

\* styles[name]: the style of that name in the sample style sheet.
StyleLookup(sheet, name) == IF name \in sheet THEN name ELSE "KeyError"

\* Paragraph(text, style)
Paragraph(text, style) ==
    [kind |-> "Paragraph", text |-> text, style |-> style, width |-> 0, height |-> 0]

\* Spacer(width, height)
Spacer(width, height) ==
    [kind |-> "Spacer", text |-> <<>>, style |-> "", width |-> width, height |-> height]

\* str(n) for n >= 0, as the sequence of its decimal digits.
RECURSIVE ToStr(_)
ToStr(n) ==
    LET digit == <<"0", "1", "2", "3", "4", "5", "6", "7", "8", "9">>
    IN  IF n < 10 THEN <<digit[n + 1]>>
        ELSE ToStr(n \div 10) \o <<digit[(n % 10) + 1]>>

(***************************************************************************)
(* Literal data of the script                                              *)
(***************************************************************************)

OutputName == "test_providers.pdf"

\* A second path of the working directory, which the script never names.
OtherName == "other.pdf"

Paths == {OutputName, OtherName}

ProviderLiterals ==
    << [name      |-> "Dr. John Smith",
        npi       |-> "NPI: 1234567890",
        phone     |-> "Phone: (555) 123-4567",
        address   |-> "123 Main Street",
        city      |-> "New York, NY 10001",
        specialty |-> "Cardiologist"],
       [name      |-> "Dr. Jane Doe",
        npi       |-> "NPI: 0987654321",
        phone     |-> "Phone: (555) 987-6543",
        address   |-> "456 Oak Avenue",
        city      |-> "Los Angeles, CA 90001",
        specialty |-> "Physician"],
       [name      |-> "Dr. Michael Johnson",
        npi       |-> "NPI: 1111111111",
        phone     |-> "Phone: (555) 111-2222",
        address   |-> "789 Elm Street",
        city      |-> "Chicago, IL 60601",
        specialty |-> "Dentist"],
       [name      |-> "Dr. Sarah Williams",
        npi       |-> "NPI: 2222222222",
        phone     |-> "Phone: (555) 222-3333",
        address   |-> "321 Pine Road",
        city      |-> "Houston, TX 77001",
        specialty |-> "Surgeon"] >>

NoProvider ==
    [name |-> "", npi |-> "", phone |-> "", address |-> "", city |-> "",
     specialty |-> ""]

NoStyle ==
    [name |-> "", parent |-> "", fontSize |-> 0, textColor |-> "", spaceAfter |-> 0]

(***************************************************************************)
(* The file system: each path is absent or holds a file.                   *)
(***************************************************************************)

Absent  == [state |-> "absent",  content |-> <<>>]
Stale   == [state |-> "stale",   content |-> <<>>]
Partial == [state |-> "partial", content |-> <<>>]
Pdf(flowables) == [state |-> "pdf", content |-> flowables]

(***************************************************************************)
(* Init: the state after the imports of lines 5-8.                         *)
(***************************************************************************)

Init ==
    /\ pc = "L11"
    /\ bound = {}
    /\ pdf_file = ""
    /\ doc = [filename |-> "", pagesize |-> ""]
    /\ story = <<>>
    /\ styles = {}
    /\ title_style = NoStyle
    /\ providers = <<>>
    /\ loop = [count |-> 0, index |-> 0]
    /\ i = 0
    /\ provider = NoProvider
    /\ stdout = <<>>
    /\ exit = "running"
    /\ disk \in [Paths -> {Absent, Stale}]
    /\ built = <<>>

(***************************************************************************)
(* Lines 11-27: set-up and title                                           *)
(***************************************************************************)

\* pdf_file = "test_providers.pdf"
L11 ==
    /\ pc = "L11"
    /\ pdf_file' = OutputName
    /\ bound' = bound \cup {"pdf_file"}
    /\ pc' = "L12"
    /\ UNCHANGED <<doc, story, styles, title_style, providers, loop, i, provider,
                   stdout, exit, disk, built>>

\* Variant of line 12 that names the file with a second literal instead of
\* pdf_file.
L12_other_name ==
    /\ pc = "L12"
    /\ doc' = [filename |-> OtherName, pagesize |-> "letter"]
    /\ bound' = bound \cup {"doc"}
    /\ pc' = "L13"
    /\ UNCHANGED <<pdf_file, story, styles, title_style, providers, loop, i,
                   provider, stdout, exit, disk, built>>

\* doc = SimpleDocTemplate(pdf_file, pagesize=letter)
L12 ==
    /\ pc = "L12"
    /\ doc' = [filename |-> pdf_file, pagesize |-> "letter"]
    /\ bound' = bound \cup {"doc"}
    /\ pc' = "L13"
    /\ UNCHANGED <<pdf_file, story, styles, title_style, providers, loop, i,
                   provider, stdout, exit, disk, built>>

\* story = []
L13 ==
    /\ pc = "L13"
    /\ story' = <<>>
    /\ bound' = bound \cup {"story"}
    /\ pc' = "L14"
    /\ UNCHANGED <<pdf_file, doc, styles, title_style, providers, loop, i,
                   provider, stdout, exit, disk, built>>

\* styles = getSampleStyleSheet()
L14 ==
    /\ pc = "L14"
    /\ styles' = SampleStyleSheet
    /\ bound' = bound \cup {"styles"}
    /\ pc' = "L17"
    /\ UNCHANGED <<pdf_file, doc, story, title_style, providers, loop, i,
                   provider, stdout, exit, disk, built>>

\* title_style = ParagraphStyle('CustomTitle', parent=styles['Heading1'], ...)
L17 ==
    /\ pc = "L17"
    /\ title_style' = [name |-> "CustomTitle",
                       parent |-> StyleLookup(styles, "Heading1"),
                       fontSize |-> 16, textColor |-> "#000000", spaceAfter |-> 12]
    /\ bound' = bound \cup {"title_style"}
    /\ pc' = "L26"
    /\ UNCHANGED <<pdf_file, doc, story, styles, providers, loop, i, provider,
                   stdout, exit, disk, built>>

\* story.append(Paragraph("Provider Directory", title_style))
L26 ==
    /\ pc = "L26"
    /\ story' = Append(story, Paragraph(<<"Provider Directory">>, title_style.name))
    /\ pc' = "L27"
    /\ UNCHANGED <<bound, pdf_file, doc, styles, title_style, providers, loop, i,
                   provider, stdout, exit, disk, built>>

\* story.append(Spacer(1, 0.3*inch))
L27 ==
    /\ pc = "L27"
    /\ story' = Append(story, Spacer(1, (3 * inch) \div 10))
    /\ pc' = "L30"
    /\ UNCHANGED <<bound, pdf_file, doc, styles, title_style, providers, loop, i,
                   provider, stdout, exit, disk, built>>

\* providers = [ {...}, {...}, {...}, {...} ]
L30 ==
    /\ pc = "L30"
    /\ providers' = ProviderLiterals
    /\ bound' = bound \cup {"providers"}
    /\ pc' = "L66"
    /\ UNCHANGED <<pdf_file, doc, story, styles, title_style, loop, i, provider,
                   stdout, exit, disk, built>>

(***************************************************************************)
(* Lines 66-74: the provider loop                                          *)
(***************************************************************************)

\* Variant of enumerate that ignores start and counts from 0, as
\* enumerate(providers) would.
Enumerate_from_zero(start) == [count |-> 0, index |-> 0]

\* enumerate(iterable, start): a counter and a position in the list.
Enumerate(start) == [count |-> start, index |-> 0]

\* f"{i}. {provider['name']}"
HeadingText(n, name) == ToStr(n) \o <<". ", name>>

\* f"<b>Specialty:</b> {provider['specialty']}"
SpecialtyText(specialty) == <<"<b>Specialty:</b> ", specialty>>

\* for ... in enumerate(providers, 1): the iterator is created once.
L66 ==
    /\ pc = "L66"
    /\ loop' = Enumerate(1)
    /\ pc' = "L66next"
    /\ UNCHANGED <<bound, pdf_file, doc, story, styles, title_style, providers, i,
                   provider, stdout, exit, disk, built>>

\* Variant of the loop that stops one item before the end of the list.
L66next_stops_early ==
    /\ pc = "L66next"
    /\ IF loop.index < Len(providers) - 1
       THEN /\ i' = loop.count
            /\ provider' = providers[loop.index + 1]
            /\ loop' = [count |-> loop.count + 1, index |-> loop.index + 1]
            /\ bound' = bound \cup {"i", "provider"}
            /\ pc' = "L67"
       ELSE /\ pc' = "L77"
            /\ UNCHANGED <<i, provider, loop, bound>>
    /\ UNCHANGED <<pdf_file, doc, story, styles, title_style, providers, stdout,
                   exit, disk, built>>

\* Variant of the loop that takes each record off the front of the list
\* (provider = providers.pop(0)) instead of iterating over it.
L66next_pops ==
    /\ pc = "L66next"
    /\ IF providers # <<>>
       THEN /\ i' = loop.count
            /\ provider' = Head(providers)
            /\ providers' = Tail(providers)
            /\ loop' = [count |-> loop.count + 1, index |-> loop.index + 1]
            /\ bound' = bound \cup {"i", "provider"}
            /\ pc' = "L67"
       ELSE /\ pc' = "L77"
            /\ UNCHANGED <<i, provider, loop, bound, providers>>
    /\ UNCHANGED <<pdf_file, doc, story, styles, title_style, stdout, exit, disk,
                   built>>

\* next() of the enumerate object: (count, next list item), or StopIteration,
\* which ends the loop. The list iterator compares its position with the
\* list's current length.
L66next ==
    /\ pc = "L66next"
    /\ IF loop.index < Len(providers)
       THEN /\ i' = loop.count
            /\ provider' = providers[loop.index + 1]
            /\ loop' = [count |-> loop.count + 1, index |-> loop.index + 1]
            /\ bound' = bound \cup {"i", "provider"}
            /\ pc' = "L67"
       ELSE /\ pc' = "L77"
            /\ UNCHANGED <<i, provider, loop, bound>>
    /\ UNCHANGED <<pdf_file, doc, story, styles, title_style, providers, stdout,
                   exit, disk, built>>

\* story.append(Paragraph(f"{i}. {provider['name']}", styles['Heading2']))
L67 ==
    /\ pc = "L67"
    /\ story' = Append(story, Paragraph(HeadingText(i, provider.name),
                                        StyleLookup(styles, "Heading2")))
    /\ pc' = "L68"
    /\ UNCHANGED <<bound, pdf_file, doc, styles, title_style, providers, loop, i,
                   provider, stdout, exit, disk, built>>

\* Variant of line 68 without the append.
L68_missing ==
    /\ pc = "L68"
    /\ pc' = "L69"
    /\ UNCHANGED <<bound, pdf_file, doc, story, styles, title_style, providers,
                   loop, i, provider, stdout, exit, disk, built>>

\* story.append(Spacer(1, 0.1*inch))
L68 ==
    /\ pc = "L68"
    /\ story' = Append(story, Spacer(1, (1 * inch) \div 10))
    /\ pc' = "L69"
    /\ UNCHANGED <<bound, pdf_file, doc, styles, title_style, providers, loop, i,
                   provider, stdout, exit, disk, built>>

\* story.append(Paragraph(provider['npi'], styles['Normal']))
L69 ==
    /\ pc = "L69"
    /\ story' = Append(story, Paragraph(<<provider.npi>>, StyleLookup(styles, "Normal")))
    /\ pc' = "L70"
    /\ UNCHANGED <<bound, pdf_file, doc, styles, title_style, providers, loop, i,
                   provider, stdout, exit, disk, built>>

\* story.append(Paragraph(provider['phone'], styles['Normal']))
L70 ==
    /\ pc = "L70"
    /\ story' = Append(story, Paragraph(<<provider.phone>>, StyleLookup(styles, "Normal")))
    /\ pc' = "L71"
    /\ UNCHANGED <<bound, pdf_file, doc, styles, title_style, providers, loop, i,
                   provider, stdout, exit, disk, built>>

\* Variant of line 71 that repeats the city (a copy of line 72).
L71_city ==
    /\ pc = "L71"
    /\ story' = Append(story, Paragraph(<<provider.city>>, StyleLookup(styles, "Normal")))
    /\ pc' = "L72"
    /\ UNCHANGED <<bound, pdf_file, doc, styles, title_style, providers, loop, i,
                   provider, stdout, exit, disk, built>>

\* story.append(Paragraph(provider['address'], styles['Normal']))
L71 ==
    /\ pc = "L71"
    /\ story' = Append(story, Paragraph(<<provider.address>>, StyleLookup(styles, "Normal")))
    /\ pc' = "L72"
    /\ UNCHANGED <<bound, pdf_file, doc, styles, title_style, providers, loop, i,
                   provider, stdout, exit, disk, built>>

\* story.append(Paragraph(provider['city'], styles['Normal']))
L72 ==
    /\ pc = "L72"
    /\ story' = Append(story, Paragraph(<<provider.city>>, StyleLookup(styles, "Normal")))
    /\ pc' = "L73"
    /\ UNCHANGED <<bound, pdf_file, doc, styles, title_style, providers, loop, i,
                   provider, stdout, exit, disk, built>>

\* story.append(Paragraph(f"<b>Specialty:</b> {provider['specialty']}", styles['Normal']))
L73 ==
    /\ pc = "L73"
    /\ story' = Append(story, Paragraph(SpecialtyText(provider.specialty),
                                        StyleLookup(styles, "Normal")))
    /\ pc' = "L74"
    /\ UNCHANGED <<bound, pdf_file, doc, styles, title_style, providers, loop, i,
                   provider, stdout, exit, disk, built>>

\* Variant of line 74 after which the build runs at once, instead of after
\* the loop.
L74_then_build ==
    /\ pc = "L74"
    /\ story' = Append(story, Spacer(1, (2 * inch) \div 10))
    /\ pc' = "L77"
    /\ UNCHANGED <<bound, pdf_file, doc, styles, title_style, providers, loop, i,
                   provider, stdout, exit, disk, built>>

\* story.append(Spacer(1, 0.2*inch)), the last statement of the loop body
L74 ==
    /\ pc = "L74"
    /\ story' = Append(story, Spacer(1, (2 * inch) \div 10))
    /\ pc' = "L66next"
    /\ UNCHANGED <<bound, pdf_file, doc, styles, title_style, providers, loop, i,
                   provider, stdout, exit, disk, built>>

(***************************************************************************)
(* Line 77: doc.build(story).  The renderer is outside the script; the     *)
(* call either returns or raises.  reportlab's build consumes the list it  *)
(* is given (each flowable is deleted from the list as it is handled) and  *)
(* writes doc.filename when the canvas is saved, after the last flowable.  *)
(***************************************************************************)

\* The last n elements of s.
Suffix(s, n) == SubSeq(s, Len(s) - n + 1, Len(s))

\* doc.build(story) returns: the file holds the rendered story.
L77_return ==
    /\ pc = "L77"
    /\ built' = Append(built, [arg |-> story, filename |-> doc.filename,
                               outcome |-> "returned"])
    /\ disk' = [disk EXCEPT ![doc.filename] = Pdf(story)]
    /\ story' = <<>>
    /\ pc' = "L78"
    /\ UNCHANGED <<bound, pdf_file, doc, styles, title_style, providers, loop, i,
                   provider, stdout, exit>>

\* Variant of the failing build inside try/except: the exception is
\* swallowed and the script goes on to the status lines.
L77_raise_caught ==
    /\ pc = "L77"
    /\ built' = Append(built, [arg |-> story, filename |-> doc.filename,
                               outcome |-> "raised"])
    /\ \E n \in 0..Len(story) :
          /\ story' = Suffix(story, n)
          /\ \/ disk' = disk
             \/ n = 0 /\ disk' = [disk EXCEPT ![doc.filename] = Partial]
    /\ pc' = "L78"
    /\ UNCHANGED <<bound, pdf_file, doc, styles, title_style, providers, loop, i,
                   provider, stdout, exit>>

\* doc.build(story) raises: during layout (n flowables are left in the list,
\* the file is untouched) or while the file is written (the list is used up,
\* the file is incomplete).  Nothing catches the exception: the traceback
\* goes to stderr and the interpreter exits with an error status.
L77_raise ==
    /\ pc = "L77"
    /\ built' = Append(built, [arg |-> story, filename |-> doc.filename,
                               outcome |-> "raised"])
    /\ \E n \in 0..Len(story) :
          /\ story' = Suffix(story, n)
          /\ \/ disk' = disk
             \/ n = 0 /\ disk' = [disk EXCEPT ![doc.filename] = Partial]
    /\ pc' = "raised"
    /\ exit' = "error"
    /\ UNCHANGED <<bound, pdf_file, doc, styles, title_style, providers, loop, i,
                   provider, stdout>>

(***************************************************************************)
(* Lines 78-80: status lines, then the end of the script                   *)
(***************************************************************************)

\* print(f"<check mark> Test PDF created: {pdf_file}")
L78 ==
    /\ pc = "L78"
    /\ stdout' = Append(stdout, <<CheckMark, " Test PDF created: ", pdf_file>>)
    /\ pc' = "L79"
    /\ UNCHANGED <<bound, pdf_file, doc, story, styles, title_style, providers,
                   loop, i, provider, exit, disk, built>>

\* Variant of line 79 that reports len(provider), the number of fields of
\* the last record, instead of len(providers).
L79_len_provider ==
    /\ pc = "L79"
    /\ stdout' = Append(stdout, <<"  Contains ">> \o ToStr(Cardinality(DOMAIN provider))
                                   \o <<" sample providers">>)
    /\ pc' = "L80"
    /\ UNCHANGED <<bound, pdf_file, doc, story, styles, title_style, providers,
                   loop, i, provider, exit, disk, built>>

\* print(f"  Contains {len(providers)} sample providers")
L79 ==
    /\ pc = "L79"
    /\ stdout' = Append(stdout, <<"  Contains ">> \o ToStr(Len(providers))
                                   \o <<" sample providers">>)
    /\ pc' = "L80"
    /\ UNCHANGED <<bound, pdf_file, doc, story, styles, title_style, providers,
                   loop, i, provider, exit, disk, built>>

\* Variant of line 80 without the print.
L80_silent ==
    /\ pc = "L80"
    /\ pc' = "done"
    /\ exit' = "ok"
    /\ UNCHANGED <<bound, pdf_file, doc, story, styles, title_style, providers,
                   loop, i, provider, stdout, disk, built>>

\* print("  Upload this file to test the PDF OCR feature"); the script ends
\* and the interpreter exits with status 0.
L80 ==
    /\ pc = "L80"
    /\ stdout' = Append(stdout, <<"  Upload this file to test the PDF OCR feature">>)
    /\ pc' = "done"
    /\ exit' = "ok"
    /\ UNCHANGED <<bound, pdf_file, doc, story, styles, title_style, providers,
                   loop, i, provider, disk, built>>

Next ==
    \/ L11 \/ L12 \/ L13 \/ L14 \/ L17 \/ L26 \/ L27 \/ L30
    \/ L66 \/ L66next
    \/ L67 \/ L68 \/ L69 \/ L70 \/ L71 \/ L72 \/ L73 \/ L74
    \/ L77_return \/ L77_raise
    \/ L78 \/ L79 \/ L80

Spec == Init /\ [][Next]_vars

\* The interpreter runs the next statement as long as there is one.
FairSpec == Spec /\ WF_vars(Next)

(***************************************************************************)
(* Reading a story back: provider entries, heading numbers, counts         *)
(***************************************************************************)

IsHeading(f) == f.kind = "Paragraph" /\ f.style = "Heading2"

IsParagraph(f) == f.kind = "Paragraph"

\* The positions of the name headings in a story.
HeadingIdx(s) == {k \in 1..Len(s) : IsHeading(s[k])}

\* The position of the p-th name heading.
NthHeading(s, p) ==
    CHOOSE k \in HeadingIdx(s) : Cardinality({m \in HeadingIdx(s) : m <= k}) = p

\* The p-th provider entry: the flowables from the p-th name heading up to
\* the next name heading or the end of the story.
Entry(s, p) ==
    LET k     == NthHeading(s, p)
        later == {m \in HeadingIdx(s) : m > k}
        last  == IF later = {} THEN Len(s)
                 ELSE (CHOOSE m \in later : \A n \in later : m <= n) - 1
    IN  SubSeq(s, k, last)

\* The last fragment of a text: the value an f-string ends with, or the
\* whole text of a paragraph that is a bare value.
LastFragment(text) == text[Len(text)]

\* The values an entry carries, paragraph by paragraph.
Carried(entry) ==
    LET paras == SelectSeq(entry, IsParagraph)
    IN  [j \in 1..Len(paras) |-> LastFragment(paras[j].text)]

FieldsOf(r) == <<r.name, r.npi, r.phone, r.address, r.city, r.specialty>>

\* int(): the number a sequence of decimal digits denotes.
RECURSIVE ParseNat(_)
ParseNat(ds) ==
    LET value(c) == CHOOSE v \in 0..9 : ToStr(v) = <<c>>
    IN  IF ds = <<>> THEN 0
        ELSE 10 * ParseNat(SubSeq(ds, 1, Len(ds) - 1)) + value(ds[Len(ds)])

\* The number in front of ". " in a heading text.
HeadingNumber(text) ==
    LET dot == CHOOSE k \in 1..Len(text) :
                  text[k] = ". " /\ \A m \in 1..(k - 1) : text[m] # ". "
    IN  ParseNat(SubSeq(text, 1, dot - 1))

\* The number N of a line "  Contains N sample providers".
ReportedCount(line) == ParseNat(SubSeq(line, 2, Len(line) - 1))

BuildReturned == built # <<>> /\ built[Len(built)].outcome = "returned"

BuildRaised == built # <<>> /\ built[Len(built)].outcome = "raised"

(***************************************************************************)
(* Properties                                                              *)
(***************************************************************************)

\* C1: every story handed to doc.build holds exactly four provider entries,
\* the p-th entry carrying the name, NPI, phone, address, city and specialty
\* literals of the p-th record of the providers list, unchanged and in list
\* order; a run that reaches the end has made that call.
C1_FourEntriesInOrder ==
    /\ pc = "done" => Len(built) = 1
    /\ \A b \in 1..Len(built) :
          LET d == built[b].arg
          IN  /\ Cardinality(HeadingIdx(d)) = 4
              /\ Cardinality(HeadingIdx(d)) = Len(ProviderLiterals)
              /\ \A p \in 1..Len(ProviderLiterals) :
                    Carried(Entry(d, p)) = FieldsOf(ProviderLiterals[p])

C1_Witness ==
    /\ pc = "done"
    /\ Len(built) = 1
    /\ built[1].outcome = "returned"
    /\ Cardinality(HeadingIdx(built[1].arg)) = 4

\* C2 as stated: a run in which rendering succeeds ends with exactly two
\* lines on the console.
C2_TwoLinesOnly ==
    (pc = "done" /\ BuildReturned) => Len(stdout) = 2

\* C2 amended: a run in which rendering succeeds ends with exactly three
\* lines on the console: the creation line naming the file, the record
\* count line, and an instruction line; at any earlier point the console
\* holds a prefix of these three lines.
C2_ThreeLines ==
    LET lines == << <<CheckMark, " Test PDF created: ", "test_providers.pdf">>,
                    <<"  Contains ", "4", " sample providers">>,
                    <<"  Upload this file to test the PDF OCR feature">> >>
    IN  /\ Len(stdout) <= 3
        /\ stdout = SubSeq(lines, 1, Len(stdout))
        /\ (pc = "done" /\ BuildReturned) => stdout = lines

C2_Witness == pc = "done" /\ BuildReturned /\ Len(stdout) = 3

\* C3: when doc.build raises, the script is in its error state with nothing
\* on the console and one build call made, and it takes no further step: no
\* retry, no status line.
C3_BuildFailurePropagates ==
    /\ [](BuildRaised => /\ pc = "raised"
                         /\ exit = "error"
                         /\ stdout = <<>>
                         /\ Len(built) = 1)
    /\ [](exit = "error" => BuildRaised)
    /\ [][~BuildRaised]_vars

C3_Witness == pc = "raised" /\ BuildRaised /\ exit = "error"

\* C4: every run ends; the loop has run exactly len(providers) = 4 times
\* when the build is reached, and a build that returns leads to the end of
\* the script with a normal exit.
C4_Terminates ==
    /\ <>(pc \in {"done", "raised"})
    /\ [](pc = "L77" => /\ loop.index = 4
                        /\ loop.index = Len(providers)
                        /\ i = 4
                        /\ Cardinality(HeadingIdx(story)) = 4)
    /\ [](BuildReturned => <>(pc = "done" /\ exit = "ok"))
    /\ [](pc = "done" <=> exit = "ok")

C4_Witness == exit = "ok" /\ loop.index = 4 /\ BuildReturned

\* C5: pdf_file is 'test_providers.pdf' from its assignment on and never
\* changes; it is bound before the document template exists, the template
\* carries that name, and so do the build call and the creation status line.
C5_FixedFileName ==
    /\ []( /\ "pdf_file" \in bound => pdf_file = "test_providers.pdf"
           /\ "doc" \in bound => ("pdf_file" \in bound /\ doc.filename = pdf_file)
           /\ \A b \in 1..Len(built) : built[b].filename = pdf_file
           /\ stdout # <<>> => LastFragment(stdout[1]) = doc.filename )
    /\ [][("pdf_file" \in bound) => (pdf_file' = pdf_file /\ "pdf_file" \in bound')]_vars

C5_Witness ==
    stdout # <<>> /\ doc.filename = "test_providers.pdf" /\ "doc" \in bound

\* C6: once the providers list exists no step changes it: it equals the
\* literal list at every later point, the exit included.
C6_ProvidersImmutable ==
    /\ [][("providers" \in bound) => providers' = providers]_vars
    /\ []("providers" \in bound => providers = ProviderLiterals)
    /\ [](pc \in {"done", "raised"} => "providers" \in bound)

C6_Witness == pc = "done" /\ providers = ProviderLiterals /\ stdout # <<>>

\* C7: doc.build is called at most once, and only with the title and the
\* blocks of every provider in the story; before the call every step leaves
\* the story alone or appends one flowable, after it nothing is appended;
\* the providers list is assigned once; only the build call changes the
\* file system, and only at the output file.
C7_OnceInOrder ==
    /\ []( /\ Len(built) <= 1
           /\ pc = "done" => Len(built) = 1
           /\ built # <<>> =>
                 LET d == built[1].arg
                 IN  /\ "providers" \in bound
                     /\ loop.index = Len(providers)
                     /\ d # <<>>
                     /\ d[1].text = <<"Provider Directory">>
                     /\ Cardinality(HeadingIdx(d)) = Len(providers)
                     /\ Len(Entry(d, Len(providers))) = 8 )
    /\ [][ /\ built # <<>> => (story' = story /\ built' = built)
           /\ built = <<>> =>
                 \/ story' = story
                 \/ Len(story') = Len(story) + 1 /\ SubSeq(story', 1, Len(story)) = story
                 \/ built' # <<>>
           /\ built' # built => "providers" \in bound
           /\ disk' # disk =>
                 /\ built = <<>> /\ Len(built') = 1
                 /\ \A f \in Paths : f # "test_providers.pdf" => disk'[f] = disk[f] ]_vars

C7_Witness ==
    built # <<>> /\ disk["test_providers.pdf"].state = "pdf" /\ pc = "done"

\* The fixed shape of a story holding the title and the blocks of the first
\* k providers.
Shape(s, k) ==
    /\ Len(s) = 2 + 8 * k
    /\ s[1].kind = "Paragraph" /\ s[1].text = <<"Provider Directory">>
    /\ s[2].kind = "Spacer"
    /\ \A p \in 1..k :
          LET b == 2 + 8 * (p - 1)
              r == ProviderLiterals[p]
          IN  /\ IsHeading(s[b + 1]) /\ LastFragment(s[b + 1].text) = r.name
              /\ Len(s[b + 1].text) > 2
              /\ s[b + 2].kind = "Spacer"
              /\ s[b + 3].kind = "Paragraph" /\ s[b + 3].text = <<r.npi>>
              /\ s[b + 4].kind = "Paragraph" /\ s[b + 4].text = <<r.phone>>
              /\ s[b + 5].kind = "Paragraph" /\ s[b + 5].text = <<r.address>>
              /\ s[b + 6].kind = "Paragraph" /\ s[b + 6].text = <<r.city>>
              /\ s[b + 7].kind = "Paragraph"
              /\ s[b + 7].text = <<"<b>Specialty:</b> ", r.specialty>>
              /\ s[b + 8].kind = "Spacer"
              /\ \A j \in 3..7 : ~IsHeading(s[b + j])

\* C8: after k loop iterations the story is the title, a spacer and eight
\* flowables per provider in the fixed order, 2 + 8*k long; it is 34 long
\* when doc.build is called.
C8_StoryShape ==
    /\ pc = "L66next" => Shape(story, loop.index)
    /\ pc = "L77" => (Shape(story, 4) /\ Len(story) = 34)
    /\ \A b \in 1..Len(built) : Shape(built[b].arg, 4) /\ Len(built[b].arg) = 34

C8_Witness == pc = "L77" /\ Len(story) = 34 /\ loop.index = 4

\* C9: in the story and in what doc.build is given, the heading of the
\* provider at 0-based position p carries the number p+1; the numbers rise
\* by one from 1 and the last one is len(providers).
C9_Numbering ==
    LET Numbered(s) ==
            LET n == Cardinality(HeadingIdx(s))
            IN  /\ \A p \in 1..n :
                      /\ HeadingNumber(s[NthHeading(s, p)].text) = p
                      /\ LastFragment(s[NthHeading(s, p)].text) = ProviderLiterals[p].name
                /\ \A p \in 1..(n - 1) :
                      HeadingNumber(s[NthHeading(s, p + 1)].text)
                         = HeadingNumber(s[NthHeading(s, p)].text) + 1
    IN  /\ built = <<>> => Numbered(story)
        /\ \A b \in 1..Len(built) :
              LET d == built[b].arg
              IN  /\ Numbered(d)
                  /\ HeadingNumber(d[NthHeading(d, Cardinality(HeadingIdx(d)))].text)
                        = Len(providers)

C9_Witness ==
    /\ built # <<>>
    /\ Cardinality(HeadingIdx(built[1].arg)) = 4
    /\ HeadingNumber(built[1].arg[NthHeading(built[1].arg, 4)].text) = 4

\* C10: the count in the 'Contains N sample providers' line equals the
\* number of name headings in the story that was rendered.
C10_CountMatches ==
    Len(stdout) >= 2 =>
        /\ Len(built) = 1
        /\ BuildReturned
        /\ ReportedCount(stdout[2]) = Cardinality(HeadingIdx(built[1].arg))
        /\ disk[doc.filename].state = "pdf"
        /\ ReportedCount(stdout[2]) = Cardinality(HeadingIdx(disk[doc.filename].content))

C10_Witness ==
    Len(stdout) >= 2 /\ Len(built) = 1 /\ ReportedCount(stdout[2]) = 4

====
